---- MODULE Spec2Model ----
(***************************************************************************)
(* Model of the mail-merge command line of automail: src/main.py and its   *)
(* attachment-less twin src/bulk_compose.py.  One run of main() is one     *)
(* behaviour: parse the arguments, read the template, read the CSV,        *)
(* obtain the Gmail service (unless --dry-run), then one loop iteration    *)
(* per row, then the process exit.                                         *)
(*                                                                         *)
(* A template is a sequence of items: a field name is a {placeholder}, the *)
(* item Malformed is a stray brace, anything else is literal text.  A cell *)
(* value is the pair <<column, record number>>; literal text is the pair   *)
(* <<text, 0>>.  What the program does to the outside world (get_service,  *)
(* send_message, print) is recorded in program order in trace.             *)
(***************************************************************************)
EXTENDS Integers, Sequences, FiniteSets

\* Bounds of the model.
MaxRows == 2
MaxAttach == 2

\* Column names a CSV header or a placeholder may use.
FieldNames == {"email", "name"}

\* A stray "{" or "}" in a format string.
Malformed == "{"

\* Subject (--subject) and body (--template) format strings tried.
TemplateChoices == {<<"txt">>, <<"txt", "name">>, <<"name", "{">>}

\* --attach path patterns tried: "report.pdf" and "{name}.pdf".
PatternChoices == {<<"report">>, <<"name", ".pdf">>}

RECURSIVE SeqsUpTo(_, _)
SeqsUpTo(S, n) ==
  IF n = 0 THEN {<<>>}
  ELSE LET shorter == SeqsUpTo(S, n - 1)
       IN  shorter \cup {Append(s, x) : s \in shorter, x \in S}

VARIABLES
  entry,          \* which script runs: "main" or "bulk_compose"
  dry_run,        \* args.dry_run
  subject,        \* args.subject
  attach,         \* args.attach (always <<>> for bulk_compose)
  body_template,  \* main(): body_template
  rows,           \* main(): rows
  service,        \* main(): service ("None", "unset" or "gmail")
  i,              \* main(): loop counter of enumerate(rows, start=1)
  pc,             \* position in main()
  exc,            \* the exception that left main(), "none" if none
  exit_status,    \* process exit status, meaningful when pc = "exit"
  trace           \* calls of get_service / send_message and printed lines

vars == <<entry, dry_run, subject, attach, body_template, rows, service, i,
          pc, exc, exit_status, trace>>

\* The sender given with --from.
sender == <<"sender", 0>>

\* row.get('email') of a row without that column.
None == <<"None", 0>>

----
\* str.format(**row): placeholders are looked up left to right.
RECURSIVE Format(_, _)
Format(tpl, row) ==
  IF tpl = <<>> THEN [exc |-> "none", key |-> "", val |-> <<>>]
  ELSE LET item == Head(tpl) IN
       IF item = Malformed
       THEN [exc |-> "ValueError", key |-> "", val |-> <<>>]
       ELSE IF item \in FieldNames /\ item \notin DOMAIN row
       THEN [exc |-> "KeyError", key |-> item, val |-> <<>>]
       ELSE LET rest == Format(Tail(tpl), row)
                piece == IF item \in FieldNames THEN row[item] ELSE <<item, 0>>
            IN  IF rest.exc # "none" THEN rest
                ELSE [exc |-> "none", key |-> "", val |-> <<piece>> \o rest.val]

\* row["email"]
Lookup(row, key) ==
  IF key \in DOMAIN row
  THEN [exc |-> "none", key |-> "", val |-> row[key]]
  ELSE [exc |-> "KeyError", key |-> key, val |-> None]

\* _attach_files building the attachment list back to front.
RECURSIVE AttachFiles_Reversed(_, _, _)
AttachFiles_Reversed(paths, row, fs) ==
  IF paths = <<>> THEN [exc |-> "none", key |-> "", warn |-> <<>>, atts |-> <<>>]
  ELSE LET fp == Format(Head(paths), row) IN
       IF fp.exc # "none"
       THEN [exc |-> fp.exc, key |-> fp.key, warn |-> <<>>, atts |-> <<>>]
       ELSE IF fs[fp.val] = "unreadable"
       THEN [exc |-> "OSError", key |-> "", warn |-> <<>>, atts |-> <<>>]
       ELSE LET rest == AttachFiles_Reversed(Tail(paths), row, fs) IN
            IF fs[fp.val] = "missing"
            THEN [rest EXCEPT !.warn = <<fp.val>> \o rest.warn]
            ELSE [rest EXCEPT !.atts = rest.atts \o <<fp.val>>]

\* _attach_files: fs says of each formatted path whether it is no file
\* ("missing"), a file ("file"), or a file whose read_bytes() raises
\* ("unreadable").  Warnings already printed stay printed when a later
\* pattern raises.
RECURSIVE AttachFiles(_, _, _)
AttachFiles(paths, row, fs) ==
  IF paths = <<>> THEN [exc |-> "none", key |-> "", warn |-> <<>>, atts |-> <<>>]
  ELSE LET fp == Format(Head(paths), row) IN
       IF fp.exc # "none"
       THEN [exc |-> fp.exc, key |-> fp.key, warn |-> <<>>, atts |-> <<>>]
       ELSE IF fs[fp.val] = "unreadable"
       THEN [exc |-> "OSError", key |-> "", warn |-> <<>>, atts |-> <<>>]
       ELSE LET rest == AttachFiles(Tail(paths), row, fs) IN
            IF fs[fp.val] = "missing"
            THEN [rest EXCEPT !.warn = <<fp.val>> \o rest.warn]
            ELSE [rest EXCEPT !.atts = <<fp.val>> \o rest.atts]

NoMessage == [raw |-> <<>>]

Raised(e, warned) ==
  [exc |-> e.exc, key |-> e.key, warn |-> warned, message |-> NoMessage]

\* create_message of main.py: body, To, Subject, attachments, in that order.
create_message(row, subject_fmt, body_tpl, from, attachments, fs) ==
  LET md_filled == Format(body_tpl, row)
      to == Lookup(row, "email")
      subj == Format(subject_fmt, row)
      files == AttachFiles(attachments, row, fs)
  IN  IF md_filled.exc # "none" THEN Raised(md_filled, <<>>)
      ELSE IF to.exc # "none" THEN Raised(to, <<>>)
      ELSE IF subj.exc # "none" THEN Raised(subj, <<>>)
      ELSE IF files.exc # "none" THEN Raised(files, files.warn)
      ELSE [exc |-> "none", key |-> "", warn |-> files.warn,
            message |-> [raw |-> [To |-> to.val, From |-> from,
                                  Subject |-> subj.val,
                                  plain |-> md_filled.val,
                                  html |-> <<md_filled.val>>,
                                  attachments |-> files.atts]]]

\* create_message of bulk_compose.py: To, Subject, body; no html, no files.
bulk_create_message(row, subject_fmt, body_tpl, from) ==
  LET to == Lookup(row, "email")
      subj == Format(subject_fmt, row)
      content == Format(body_tpl, row)
  IN  IF to.exc # "none" THEN Raised(to, <<>>)
      ELSE IF subj.exc # "none" THEN Raised(subj, <<>>)
      ELSE IF content.exc # "none" THEN Raised(content, <<>>)
      ELSE [exc |-> "none", key |-> "", warn |-> <<>>,
            message |-> [raw |-> [To |-> to.val, From |-> from,
                                  Subject |-> subj.val,
                                  plain |-> content.val,
                                  html |-> <<>>,
                                  attachments |-> <<>>]]]

----
\* What send_message may do: return, raise HttpError (the API answered with an
\* error status), or raise something else (no network, token refresh failed).
SendResults == {"ok", "HttpError", "TransportError"}

\* Printed lines.  A field of the record is a value the line shows.
\* The sent line counting rows from 0.
SentLine_ZeroBased(k, row) ==
  [kind |-> "sent", email |-> row["email"], pos |-> k - 1, total |-> Len(rows)]

SentLine(k, row) ==
  [kind |-> "sent", email |-> row["email"], pos |-> k, total |-> Len(rows)]

DryRunLine(row) == [kind |-> "dry_run", email |-> row["email"]]

HttpErrorLine(row) == [kind |-> "http_error", email |-> row["email"]]

MissingLine(key, row) ==
  [kind |-> "missing", key |-> key,
   email |-> IF "email" \in DOMAIN row THEN row["email"] ELSE None]

WarnLine(fp) == [kind |-> "warn", path |-> fp]

PrintEvent(k, line) == [op |-> "print", row |-> k, line |-> line]

\* send_message(service, message), with what the API did.
SendEvent(k, message, res) ==
  [op |-> "send_message", row |-> k, service |-> service,
   message |-> message, result |-> res]

GetServiceEvent(res) == [op |-> "get_service", row |-> 0, result |-> res]

\* The call of create_message in the try block, by entry point.
Assemble(row, fs) ==
  IF entry = "main"
  THEN create_message(row, subject, body_template, sender, attach, fs)
  ELSE bulk_create_message(row, subject, body_template, sender)

\* The if/else of the try block sending whatever --dry-run says.
Deliver_IgnoresDryRun(k, row, message, res) ==
  IF res = "ok"
  THEN [events |-> <<SendEvent(k, message, res), PrintEvent(k, SentLine(k, row))>>,
        exc |-> "none", key |-> ""]
  ELSE [events |-> <<SendEvent(k, message, res)>>, exc |-> res, key |-> ""]

\* The if/else of the try block authenticating again for every row.
Deliver_AuthPerRow(k, row, message, res) ==
  IF dry_run
  THEN [events |-> <<PrintEvent(k, DryRunLine(row))>>, exc |-> "none", key |-> ""]
  ELSE IF res = "ok"
  THEN [events |-> <<GetServiceEvent("ok"), SendEvent(k, message, res),
                     PrintEvent(k, SentLine(k, row))>>,
        exc |-> "none", key |-> ""]
  ELSE [events |-> <<GetServiceEvent("ok"), SendEvent(k, message, res)>>,
        exc |-> res, key |-> ""]

\* The if/else of the try block sending a second time when the first send fails.
Deliver_Retry(k, row, message, res) ==
  IF dry_run
  THEN [events |-> <<PrintEvent(k, DryRunLine(row))>>, exc |-> "none", key |-> ""]
  ELSE IF res = "ok"
  THEN [events |-> <<SendEvent(k, message, res), PrintEvent(k, SentLine(k, row))>>,
        exc |-> "none", key |-> ""]
  ELSE [events |-> <<SendEvent(k, message, res), SendEvent(k, message, res)>>,
        exc |-> res, key |-> ""]

\* The if/else of the try block once create_message has returned.
Deliver(k, row, message, res) ==
  IF dry_run
  THEN [events |-> <<PrintEvent(k, DryRunLine(row))>>, exc |-> "none", key |-> ""]
  ELSE IF res = "ok"
  THEN [events |-> <<SendEvent(k, message, res), PrintEvent(k, SentLine(k, row))>>,
        exc |-> "none", key |-> ""]
  ELSE [events |-> <<SendEvent(k, message, res)>>, exc |-> res, key |-> ""]

\* The try block of one loop iteration.
TryBlock(k, row, fs, res) ==
  LET m == Assemble(row, fs)
      warned == [j \in 1..Len(m.warn) |-> PrintEvent(k, WarnLine(m.warn[j]))]
  IN  IF m.exc # "none"
      THEN [events |-> warned, exc |-> m.exc, key |-> m.key]
      ELSE LET d == Deliver(k, row, m.message, res)
           IN  [d EXCEPT !.events = warned \o d.events]

\* The except clauses with a KeyError handler that prints nothing.
ExceptClauses_SilentKeyError(k, row, r) ==
  IF r.exc = "HttpError"
  THEN [events |-> Append(r.events, PrintEvent(k, HttpErrorLine(row))), exc |-> "none"]
  ELSE IF r.exc = "KeyError"
  THEN [events |-> r.events, exc |-> "none"]
  ELSE [events |-> r.events, exc |-> r.exc]

\* The except clauses without the KeyError handler.
ExceptClauses_NoKeyError(k, row, r) ==
  IF r.exc = "HttpError"
  THEN [events |-> Append(r.events, PrintEvent(k, HttpErrorLine(row))), exc |-> "none"]
  ELSE [events |-> r.events, exc |-> r.exc]

\* The except clauses without the HttpError handler.
ExceptClauses_NoHttpError(k, row, r) ==
  IF r.exc = "KeyError"
  THEN [events |-> Append(r.events, PrintEvent(k, MissingLine(r.key, row))), exc |-> "none"]
  ELSE [events |-> r.events, exc |-> r.exc]

\* The except clauses: HttpError and KeyError are reported, the rest propagates.
ExceptClauses(k, row, r) ==
  IF r.exc = "HttpError"
  THEN [events |-> Append(r.events, PrintEvent(k, HttpErrorLine(row))), exc |-> "none"]
  ELSE IF r.exc = "KeyError"
  THEN [events |-> Append(r.events, PrintEvent(k, MissingLine(r.key, row))), exc |-> "none"]
  ELSE [events |-> r.events, exc |-> r.exc]

\* One iteration of the for loop.
LoopBody(k, row, fs, res) ==
  ExceptClauses(k, row, TryBlock(k, row, fs, res))

\* The paths _attach_files may look up for a row.
PathsOf(row) ==
  {Format(attach[j], row).val :
     j \in {n \in 1..Len(attach) : Format(attach[n], row).exc = "none"}}

\* What the file system may hold at a path.
FileStates == {"missing", "file", "unreadable"}

\* An exception leaves main(): traceback, exit status 1.
Abort(e) == pc' = "exit" /\ exc' = e /\ exit_status' = 1

----
Init ==
  /\ entry \in {"main", "bulk_compose"}
  /\ dry_run \in BOOLEAN
  /\ subject \in TemplateChoices
  /\ attach \in IF entry = "main" THEN SeqsUpTo(PatternChoices, MaxAttach) ELSE {<<>>}
  /\ body_template = <<>>
  /\ rows = <<>>
  /\ service = "unset"
  /\ i = 1
  /\ pc = "read_template"
  /\ exc = "none"
  /\ exit_status = -1
  /\ trace = <<>>

\* body_template = args.template.read_text()
ReadTemplate ==
  /\ pc = "read_template"
  /\ \/ \E t \in TemplateChoices :
          /\ body_template' = t
          /\ pc' = "read_csv"
          /\ UNCHANGED <<exc, exit_status>>
     \/ /\ Abort("template:OSError")
        /\ UNCHANGED body_template
  /\ UNCHANGED <<entry, dry_run, subject, attach, rows, service, i, trace>>

\* rows = list(csv.DictReader(args.csv.open())): every row has the header's keys.
ReadCsv ==
  /\ pc = "read_csv"
  /\ \/ \E header \in SUBSET FieldNames, n \in 0..MaxRows :
          /\ rows' = [k \in 1..n |-> [f \in header |-> <<f, k>>]]
          /\ pc' = "get_service"
          /\ UNCHANGED <<exc, exit_status>>
     \/ /\ Abort("csv:OSError")
        /\ UNCHANGED rows
  /\ UNCHANGED <<entry, dry_run, subject, attach, body_template, service, i, trace>>

\* get_service() called inside a try that swallows its failure.
AcquireService_Swallow ==
  /\ pc = "get_service"
  /\ \/ /\ dry_run
        /\ service' = "None"
        /\ pc' = "loop"
        /\ UNCHANGED <<exc, exit_status, trace>>
     \/ /\ ~dry_run
        /\ service' = "gmail"
        /\ trace' = Append(trace, GetServiceEvent("ok"))
        /\ pc' = "loop"
        /\ UNCHANGED <<exc, exit_status>>
     \/ /\ ~dry_run
        /\ trace' = Append(trace, GetServiceEvent("raised"))
        /\ exc' = "get_service:Exception"
        /\ service' = "None"
        /\ pc' = "loop"
        /\ UNCHANGED exit_status
  /\ UNCHANGED <<entry, dry_run, subject, attach, body_template, rows, i>>

\* service = None if args.dry_run else get_service()
AcquireService ==
  /\ pc = "get_service"
  /\ \/ /\ dry_run
        /\ service' = "None"
        /\ pc' = "loop"
        /\ UNCHANGED <<exc, exit_status, trace>>
     \/ /\ ~dry_run
        /\ service' = "gmail"
        /\ trace' = Append(trace, GetServiceEvent("ok"))
        /\ pc' = "loop"
        /\ UNCHANGED <<exc, exit_status>>
     \/ /\ ~dry_run
        /\ trace' = Append(trace, GetServiceEvent("raised"))
        /\ Abort("get_service:Exception")
        /\ UNCHANGED service
  /\ UNCHANGED <<entry, dry_run, subject, attach, body_template, rows, i>>

\* for i, row in enumerate(rows, start=1): try ... except ...
ProcessRow ==
  /\ pc = "loop"
  /\ i <= Len(rows)
  /\ \E fs \in [PathsOf(rows[i]) -> FileStates], res \in SendResults :
       LET r == LoopBody(i, rows[i], fs, res) IN
         /\ trace' = trace \o r.events
         /\ \/ /\ r.exc = "none"
               /\ i' = i + 1
               /\ UNCHANGED <<pc, exc, exit_status>>
            \/ /\ r.exc # "none"
               /\ Abort(r.exc)
               /\ UNCHANGED i
  /\ UNCHANGED <<entry, dry_run, subject, attach, body_template, rows, service>>

\* main() returning 1 when some row failed.
Return_CountsFailures ==
  /\ pc = "loop"
  /\ i > Len(rows)
  /\ pc' = "exit"
  /\ exit_status' = IF \E j \in DOMAIN trace :
                          /\ trace[j].op = "print"
                          /\ trace[j].line.kind \in {"http_error", "missing"}
                     THEN 1 ELSE 0
  /\ UNCHANGED <<entry, dry_run, subject, attach, body_template, rows, service,
                 i, exc, trace>>

\* The loop is over: main() returns None and sys.exit(None) exits with 0.
Return ==
  /\ pc = "loop"
  /\ i > Len(rows)
  /\ pc' = "exit"
  /\ exit_status' = 0
  /\ UNCHANGED <<entry, dry_run, subject, attach, body_template, rows, service,
                 i, exc, trace>>

Next == ReadTemplate \/ ReadCsv \/ AcquireService \/ ProcessRow \/ Return

Spec == Init /\ [][Next]_vars

----
\* Reading the trace.
IsSend(e) == e.op = "send_message"

IsGetService(e) == e.op = "get_service"

IsWarn(e) == e.op = "print" /\ e.line.kind = "warn"

\* A status line: the one line that reports what became of a row.
IsStatus(e) == e.op = "print" /\ e.line.kind # "warn"

IsCall(e) == e.op # "print"

StatusLines == SelectSeq(trace, IsStatus)

Sends == SelectSeq(trace, IsSend)

Calls == SelectSeq(trace, IsCall)

\* The SendOutcome a status line reports.
OutcomeOf(line) ==
  CASE line.kind = "sent" -> "Sent"
    [] line.kind = "dry_run" -> "Skipped"
    [] OTHER -> "Failed"

StatusOf(k) == {j \in DOMAIN trace : IsStatus(trace[j]) /\ trace[j].row = k}

SendsOf(k) == {j \in DOMAIN trace : IsSend(trace[j]) /\ trace[j].row = k}

WarnsOf(k) == {j \in DOMAIN trace : IsWarn(trace[j]) /\ trace[j].row = k}

\* Pending, or the terminal state the row's status line reports.
RowState(k) ==
  IF StatusOf(k) = {} THEN "Pending"
  ELSE OutcomeOf(trace[CHOOSE j \in StatusOf(k) : TRUE].line)

NoFiles(row) == [p \in PathsOf(row) |-> "missing"]

\* The row lacks 'email' or a field some template or pattern refers to.
LacksField(row) == Assemble(row, NoFiles(row)).exc = "KeyError"

\* Every field the templates and patterns refer to is in the row.
Renders(row) == Assemble(row, NoFiles(row)).exc = "none"

SetupErrors == {"template:OSError", "csv:OSError", "get_service:Exception"}

\* Exceptions neither except clause catches.
Uncaught == {"ValueError", "OSError", "TransportError"}

Completed == pc = "exit" /\ exc = "none"

RECURSIVE Keep(_, _)
Keep(seq, S) ==
  IF seq = <<>> THEN <<>>
  ELSE IF Head(seq) \in S THEN <<Head(seq)>> \o Keep(Tail(seq), S)
  ELSE Keep(Tail(seq), S)

Range(seq) == {seq[j] : j \in DOMAIN seq}

----
\* C1: one outcome per input row, produced in input order: the j-th status
\* line is row j's, row j's line is printed before anything of row j+1
\* happens, the rows handled so far are exactly the rows before the loop
\* counter, a KeyError or an HttpError never ends the run, and a run that
\* completes has one outcome for each of its N rows.
C1_OneOutcomePerRowInOrder ==
  /\ \A j \in DOMAIN StatusLines : StatusLines[j].row = j
  /\ Len(StatusLines) = i - 1
  /\ \A a, b \in DOMAIN trace : a < b => trace[a].row <= trace[b].row
  /\ exc \notin {"KeyError", "HttpError"}
  /\ Completed => Len(StatusLines) = Len(rows)

\* A completed sending run of two rows, one Sent and one Failed.
C1_Witness ==
  /\ Completed
  /\ ~dry_run
  /\ Len(rows) = 2
  /\ \E a, b \in DOMAIN StatusLines :
       /\ OutcomeOf(StatusLines[a].line) = "Sent"
       /\ OutcomeOf(StatusLines[b].line) = "Failed"

\* C2 as stated: a completed --dry-run run has N outcomes, all Skipped, and
\* called neither get_service nor send_message.
C2_Original ==
  (dry_run /\ Completed) =>
    /\ Len(StatusLines) = Len(rows)
    /\ \A j \in DOMAIN StatusLines : OutcomeOf(StatusLines[j].line) = "Skipped"
    /\ Calls = <<>>

\* C2 amended: under --dry-run neither get_service nor send_message is ever
\* called; a row that renders is Skipped, a row that lacks a field is Failed
\* (create_message runs in preview mode too); a completed run has N outcomes.
C2_DryRunCallsNothing ==
  dry_run =>
    /\ Calls = <<>>
    /\ service # "gmail"
    /\ \A j \in DOMAIN StatusLines :
         LET line == StatusLines[j].line
             row == rows[StatusLines[j].row]
         IN  /\ Renders(row) => line = DryRunLine(row)
             /\ LacksField(row) => OutcomeOf(line) = "Failed"
             /\ OutcomeOf(line) \in {"Skipped", "Failed"}
    /\ Completed => Len(StatusLines) = Len(rows)

\* A completed preview of two rows, both Skipped.
C2_Witness ==
  /\ dry_run
  /\ Completed
  /\ Len(rows) = 2
  /\ \A k \in 1..2 : RowState(k) = "Skipped"

\* C3: a completed sending run in which every row was Sent called get_service
\* once, before anything else, and then send_message once per row in row
\* order, each with that row's message on the service get_service returned;
\* get_service is never called a second time.
C3_OneAuthThenSendsInOrder ==
  /\ \A j \in DOMAIN trace : IsGetService(trace[j]) => j = 1
  /\ (/\ ~dry_run
      /\ Completed
      /\ \A j \in DOMAIN StatusLines : StatusLines[j].line.kind = "sent")
     => /\ Len(Calls) = Len(rows) + 1
        /\ trace[1] = GetServiceEvent("ok")
        /\ \A k \in 1..Len(rows) :
             /\ IsSend(Calls[k + 1])
             /\ Calls[k + 1].row = k
             /\ Calls[k + 1].service = "gmail"
             /\ Calls[k + 1].result = "ok"
             /\ Calls[k + 1].message.raw.To = rows[k]["email"]

\* A completed sending run of two rows, both Sent.
C3_Witness ==
  /\ ~dry_run
  /\ Completed
  /\ Len(rows) = 2
  /\ \A k \in 1..2 : RowState(k) = "Sent"

C5_Original ==
  \A j \in DOMAIN trace :
    (IsSend(trace[j]) /\ trace[j].result # "ok") =>
      /\ RowState(trace[j].row) = "Failed"
      /\ exc = "none"

\* C5 amended: an HttpError from send_message gives the row its Failed line,
\* printed right after the call, and the loop goes on; any other exception
\* from send_message is caught by no except clause: it is the last thing the
\* run did, the row has no outcome and the process exits with status 1.
C5_HttpErrorFailsRowOnly ==
  /\ \A j \in DOMAIN trace :
       (IsSend(trace[j]) /\ trace[j].result = "HttpError") =>
         /\ j < Len(trace)
         /\ trace[j + 1] = PrintEvent(trace[j].row, HttpErrorLine(rows[trace[j].row]))
         /\ i > trace[j].row
  /\ \A j \in DOMAIN trace :
       (IsSend(trace[j]) /\ trace[j].result \notin {"ok", "HttpError"}) =>
         /\ j = Len(trace)
         /\ RowState(trace[j].row) = "Pending"
         /\ pc = "exit" /\ exc = trace[j].result /\ exit_status = 1
  /\ exc # "HttpError"

\* Row 1's send raised HttpError and row 2 was sent after it.
C5_Witness ==
  /\ Len(rows) >= 2
  /\ \E j \in SendsOf(1) : trace[j].result = "HttpError"
  /\ RowState(1) = "Failed"
  /\ RowState(2) = "Sent"

\* C6: when the template or the CSV cannot be read or get_service raises, the
\* run is over with exit status 1, no row was handled, send_message was never
\* called and no line was printed.
C6_FatalSetupHandlesNoRow ==
  exc \in SetupErrors =>
    /\ pc = "exit"
    /\ exit_status = 1
    /\ i = 1
    /\ Sends = <<>>
    /\ \A j \in DOMAIN trace : IsGetService(trace[j])

\* get_service raised with two rows loaded.
C6_Witness ==
  /\ exc = "get_service:Exception"
  /\ Len(rows) = 2

\* C7: for a row whose message was sent by main.py, the attachments of the
\* message and the warnings printed for the row split the formatted --attach
\* paths between them, each keeping the order of the patterns; and a row that
\* renders and was handled in sending mode has its send_message call however
\* many of its attachment files are missing.
C7_MissingAttachmentOmitted ==
  \A k \in 1..Len(rows) :
    /\ (k < i /\ ~dry_run /\ Renders(rows[k])) => Cardinality(SendsOf(k)) = 1
    /\ \A j \in SendsOf(k) :
         LET formatted == [n \in 1..Len(attach) |-> Format(attach[n], rows[k]).val]
             warned == {trace[w].line.path : w \in WarnsOf(k)}
             printed == [n \in 1..Cardinality(WarnsOf(k)) |->
                           trace[j - Cardinality(WarnsOf(k)) + n - 1].line.path]
         IN  /\ \A w \in WarnsOf(k) : w < j /\ w >= j - Cardinality(WarnsOf(k))
             /\ trace[j].message.raw.attachments =
                  Keep(formatted, Range(formatted) \ warned)
             /\ printed = Keep(formatted, warned)

\* A message sent with one of its two requested attachments: one file was
\* missing and warned about, the other is attached.
C7_Witness ==
  \E j \in DOMAIN trace :
    /\ IsSend(trace[j])
    /\ trace[j].result = "ok"
    /\ Len(attach) = 2
    /\ Len(trace[j].message.raw.attachments) = 1
    /\ WarnsOf(trace[j].row) # {}
    /\ RowState(trace[j].row) = "Sent"

\* C8 as stated: a non-zero exit status comes only from a fatal setup error.
C8_Original ==
  (pc = "exit" /\ exit_status # 0) => exc \in SetupErrors

\* C8 amended: the exit status is 0 exactly when no exception left main(), so
\* a run whose rows ended Sent, Skipped or Failed in any mix exits with 0; the
\* status is 1 for a fatal setup error and also for an exception other than
\* KeyError and HttpError raised while a row is handled (malformed template,
\* unreadable attachment file, non-HTTP send error), which leaves that row
\* without an outcome.
C8_ExitStatus ==
  pc = "exit" =>
    /\ exit_status \in {0, 1}
    /\ exit_status = 0 <=> exc = "none"
    /\ exc = "none" => \A k \in 1..Len(rows) : RowState(k) # "Pending"
    /\ exc \notin SetupErrors \cup {"none"} =>
         /\ exc \in Uncaught
         /\ i \in 1..Len(rows)
         /\ RowState(i) = "Pending"

\* Exit status 0 after a run with a Sent and a Failed row.
C8_Witness ==
  /\ pc = "exit"
  /\ exit_status = 0
  /\ \E a, b \in 1..Len(rows) : RowState(a) = "Sent" /\ RowState(b) = "Failed"

\* C9 as stated: every row's status line shows the row's 1-based position and
\* the batch total.
C9_Original ==
  \A j \in DOMAIN StatusLines :
    LET line == StatusLines[j].line
    IN  /\ "pos" \in DOMAIN line
        /\ "total" \in DOMAIN line
        /\ line.pos = StatusLines[j].row
        /\ line.total = Len(rows)

\* C9 amended: every handled row has one status line; the line of a Sent row
\* shows the row's 1-based position and the batch total; the preview line and
\* the two error lines show neither.
C9_OnlySentLineShowsPosition ==
  /\ \A k \in 1..Len(rows) : k < i => Cardinality(StatusOf(k)) = 1
  /\ \A j \in DOMAIN StatusLines :
       LET line == StatusLines[j].line
       IN  IF line.kind = "sent"
           THEN line.pos = StatusLines[j].row /\ line.total = Len(rows)
           ELSE "pos" \notin DOMAIN line /\ "total" \notin DOMAIN line

\* Row 2 of 2 was sent and its line says 2 of 2.
C9_Witness ==
  \E j \in DOMAIN trace :
    /\ IsStatus(trace[j])
    /\ trace[j].line.kind = "sent"
    /\ trace[j].line.pos = 2
    /\ trace[j].line.total = 2

AtMostOnce ==
  \A k \in 1..Len(rows) :
    /\ Cardinality(SendsOf(k)) <= 1
    /\ Cardinality(StatusOf(k)) <= 1
    /\ \A j \in StatusOf(k) :
         trace[j].line.kind = "sent" =>
           /\ j > 1
           /\ IsSend(trace[j - 1])
           /\ trace[j - 1].row = k
           /\ trace[j - 1].result = "ok"
    /\ (\E j \in SendsOf(k) : trace[j].result # "ok") => RowState(k) # "Sent"
    /\ Completed => RowState(k) # "Pending"

TerminalStays ==
  \A k \in 1..Len(rows) :
    RowState(k) # "Pending" =>
      /\ Len(rows') = Len(rows)
      /\ RowState(k)' = RowState(k)
      /\ SendsOf(k)' = SendsOf(k)

\* C10: a row has at most one send_message call and at most one outcome; a
\* Sent line comes right after that row's send_message call returned; a row
\* whose send raised is not sent again and is never reported Sent; every row
\* of a completed run has left Pending; and a row that has its outcome keeps
\* it, with no further send_message call, in every later step.
C10_AtMostOnceAndTerminal == []AtMostOnce /\ [][TerminalStays]_vars

\* Row 1's only send failed, the row is Failed, and the run went on to send
\* row 2.
C10_Witness ==
  /\ Len(rows) >= 2
  /\ \E j \in SendsOf(1) : trace[j].result = "HttpError"
  /\ Cardinality(SendsOf(1)) = 1
  /\ RowState(1) = "Failed"
  /\ RowState(2) = "Sent"
  /\ Completed

====
